---- MODULE Spec2Model ----
(***************************************************************************)
(* The lru<Key, Value, Hash, Eq> container of src/include/lru.h (the       *)
(* superset variant; src/lru.h has the same bodies without get/get_copy).  *)
(*                                                                         *)
(* _list is a std::list of key_value_pair nodes.  A list iterator is the   *)
(* address of a node, which stays the same while the node is spliced, so   *)
(* the list is modelled as the head-to-tail sequence of node handles and   *)
(* `nodes` holds the pair stored in each live node.  Addresses are opaque  *)
(* and the key of a node is const, so the node constructed with key k is   *)
(* named k, or k + NumKeys * n while n nodes constructed with an equal key *)
(* are still alive.  _map is an                                            *)
(* unordered_map from reference_wrapper<const Key> to list iterator: each  *)
(* element is a pair (first = the node whose key is referred to, second =  *)
(* the iterator), and hashing / equality read the key through first.       *)
(***************************************************************************)
EXTENDS Integers, Sequences, FiniteSets, TLC

\* Bounds of the model.
NumKeys == 3
NumValues == 2
MaxCapacity == 3

Keys == 1..NumKeys
Values == 1..NumValues
Capacities == 0..MaxCapacity
\* A cache of capacity c holds c + 1 nodes between emplace and _prune.
Handles == 1..(NumKeys * (MaxCapacity + 1))

VARIABLES _list, _map, nodes, _capacity, lastOp, touched

vars == <<_list, _map, nodes, _capacity, lastOp, touched>>

\* _list.end(), _map.end() and std::nullopt.
end == 0
map_end == [first |-> 0, second |-> 0]
nullopt == [has_value |-> FALSE]

\* The constructor: both containers are default-constructed.
lru(capacity) == [_list |-> <<>>, _map |-> {}, nodes |-> <<>>, _capacity |-> capacity]

\* The object the member functions act on.
This == [_list |-> _list, _map |-> _map, nodes |-> nodes, _capacity |-> _capacity]

begin(c) == IF c._list = <<>> THEN end ELSE c._list[1]
back(c) == c._list[Len(c._list)]
size(c) == Len(c._list)
max_size(c) == c._capacity
empty(c) == c._list = <<>>

\* The key a map element refers to (reference_wrapper<const Key>::get).
KeyOf(c, e) == c.nodes[e.first].first

\* _map.find(key): the element whose referred key equals key, or _map.end().
map_find(c, key) ==
    IF \E e \in c._map : KeyOf(c, e) = key
    THEN CHOOSE e \in c._map : KeyOf(c, e) = key
    ELSE map_end

\* _map[ref] = iter: assigns to the element with an equal key, or adds one.
map_assign(c, ref, iter) ==
    LET found == map_find(c, c.nodes[ref].first)
    IN  IF found # map_end
        THEN (c._map \ {found}) \cup {[first |-> found.first, second |-> iter]}
        ELSE c._map \cup {[first |-> ref, second |-> iter]}

\* _map.erase(key): removes the element with an equal key, if any.
map_erase(c, key) == {e \in c._map : KeyOf(c, e) # key}

\* _list.splice(_list.begin(), _list, iter): relinks iter's node at the head.
splice(l, iter) == <<iter>> \o SelectSeq(l, LAMBDA x : x # iter)

\* _list.pop_back(): unlinks and destroys the tail node.
pop_back(c) ==
    [c EXCEPT !._list = SubSeq(c._list, 1, Len(c._list) - 1),
              !.nodes = [h \in DOMAIN c.nodes \ {back(c)} |-> c.nodes[h]]]

_contains(c, key) == map_find(c, key) # map_end

\* Mutant: the node changes places with the head instead of being spliced.
_promote_swaps(c, iter) ==
    IF iter # begin(c)
    THEN [c EXCEPT !._list =
            [i \in 1..Len(c._list) |->
               IF i = 1 THEN iter
               ELSE IF c._list[i] = iter THEN c._list[1]
               ELSE c._list[i]]]
    ELSE c

\* Mutant: nothing is relinked.
_promote_never(c, iter) == c

_promote(c, iter) ==
    IF iter # begin(c)
    THEN [c EXCEPT !._list = splice(c._list, iter)]
    ELSE c

\* Mutant: the head is evicted instead of the tail.
_evict_front(c) ==
    LET c1 == [c EXCEPT !._map = map_erase(c, c.nodes[begin(c)].first)]
    IN  [c1 EXCEPT !._list = SubSeq(c._list, 2, Len(c._list)),
                   !.nodes = [h \in DOMAIN c.nodes \ {begin(c)} |-> c.nodes[h]]]

\* Mutant: an eviction takes one off the capacity.
_evict_shrinks(c) ==
    [pop_back([c EXCEPT !._map = map_erase(c, c.nodes[back(c)].first)])
        EXCEPT !._capacity = IF c._capacity > 0 THEN c._capacity - 1 ELSE 0]

\* Mutant: the tail node is destroyed while its Index element is kept.
_evict_keeps_index(c) == pop_back(c)

_evict(c) ==
    pop_back([c EXCEPT !._map = map_erase(c, c.nodes[back(c)].first)])

\* Mutant: the loop stops one entry early.
RECURSIVE _prune_off_by_one(_, _)
_prune_off_by_one(c, capacity) ==
    IF size(c) > capacity + 1
    THEN _prune_off_by_one(_evict(c), capacity)
    ELSE c

RECURSIVE _prune(_, _)
_prune(c, capacity) ==
    IF size(c) > capacity
    THEN _prune(_evict(c), capacity)
    ELSE c

\* Mutant: the loop runs until the size is below the capacity.
_prune_below(c) == _prune(c, IF c._capacity > 0 THEN c._capacity - 1 ELSE 0)

\* The overload without argument.
_prune_capacity(c) == _prune(c, c._capacity)

\* The list allocator's next node for a pair of this key: an address not in
\* use by a live node.
allocate(c, key) ==
    LET free == {h \in Handles \ DOMAIN c.nodes : (h - key) % NumKeys = 0}
    IN  CHOOSE h \in free : \A g \in free : h <= g

\* _list.emplace(_list.begin(), key, value) into the fresh node h.
emplace_front(c, key, value, h) ==
    [c EXCEPT !._list = <<h>> \o c._list,
              !.nodes = [x \in DOMAIN c.nodes \cup {h} |->
                           IF x = h THEN [first |-> key, second |-> value]
                           ELSE c.nodes[x]]]

\* Mutant: the cache is pruned before the new Entry is put in, not after.
_insert_prunes_first(c, key, value) ==
    LET c0 == _prune_capacity(c)
        iter == allocate(c0, key)
        c1 == emplace_front(c0, key, value, iter)
    IN  [c1 EXCEPT !._map = map_assign(c1, iter, begin(c1))]

_insert(c, key, value) ==
    LET iter == allocate(c, key)
        c1 == emplace_front(c, key, value, iter)
        c2 == [c1 EXCEPT !._map = map_assign(c1, iter, begin(c1))]
    IN  _prune_capacity(c2)

\* Mutant: a present key is promoted as a lookup would.
insert_promotes(c, key, value) ==
    IF _contains(c, key)
    THEN [c |-> _promote(c, map_find(c, key).second), ret |-> FALSE]
    ELSE [c |-> _insert(c, key, value), ret |-> TRUE]

insert(c, key, value) ==
    IF _contains(c, key)
    THEN [c |-> c, ret |-> FALSE]
    ELSE [c |-> _insert(c, key, value), ret |-> TRUE]

\* Mutant: a present key is left as insert leaves it.
insert_or_assign_as_insert(c, key, value) == insert(c, key, value)

insert_or_assign(c, key, value) ==
    LET map_iter == map_find(c, key)
    IN  IF map_iter # map_end
        THEN [c |-> _promote([c EXCEPT !.nodes[map_iter.second].second = value],
                             map_iter.second),
              ret |-> FALSE]
        ELSE [c |-> _insert(c, key, value), ret |-> TRUE]

\* Mutant: a miss returns begin() instead of end().
find_miss_begin(c, key) ==
    LET iter == map_find(c, key)
    IN  IF iter = map_end
        THEN [c |-> c, ret |-> begin(c)]
        ELSE [c |-> _promote(c, iter.second), ret |-> iter.second]

find(c, key) ==
    LET iter == map_find(c, key)
    IN  IF iter = map_end
        THEN [c |-> c, ret |-> end]
        ELSE [c |-> _promote(c, iter.second), ret |-> iter.second]

contains(c, key) ==
    LET r == find(c, key)
    IN  [c |-> r.c, ret |-> r.ret # end]

\* Mutant: the overload of _prune without argument is called.
resize_prunes_to_old(c, capacity) ==
    [_prune_capacity(c) EXCEPT !._capacity = capacity]

resize(c, capacity) ==
    [_prune(c, capacity) EXCEPT !._capacity = capacity]

\* std::for_each(first, last, func) over the nodes at positions i.. of the
\* list: func is handed each pair in turn and may write its second member;
\* visited lists the iterators func was invoked on.
RECURSIVE std_for_each(_, _, _, _)
std_for_each(c, i, func, visited) ==
    IF i > Len(c._list)
    THEN [c |-> c, visited |-> visited]
    ELSE LET iter == c._list[i]
             pair == c.nodes[iter]
         IN  std_for_each([c EXCEPT !.nodes[iter].second =
                                       func[<<pair.first, pair.second>>]],
                          i + 1, func, Append(visited, iter))

\* Mutant: the traversal starts at the second node.
for_each_skips_head(c, func) == std_for_each(c, 2, func, <<>>)

for_each(c, func) == std_for_each(c, 1, func, <<>>)

\* Mutant: func is handed a copy of the value, so what it writes is lost.
try_update_on_copy(c, key, func) ==
    LET r == find(c, key)
    IN  IF r.ret = end
        THEN [c |-> r.c, ret |-> FALSE, calls |-> 0]
        ELSE [c |-> r.c, ret |-> TRUE, calls |-> 1]

\* calls is the number of times func was invoked.
try_update(c, key, func) ==
    LET r == find(c, key)
    IN  IF r.ret = end
        THEN [c |-> r.c, ret |-> FALSE, calls |-> 0]
        ELSE [c |-> [r.c EXCEPT !.nodes[r.ret].second = func[r.c.nodes[r.ret].second]],
              ret |-> TRUE, calls |-> 1]

\* Mutant: the optional is built without promoting the entry.
get_peeks(c, key) ==
    LET iterator == map_find(c, key)
    IN  IF iterator = map_end
        THEN [c |-> c, ret |-> nullopt]
        ELSE [c |-> c, ret |-> [has_value |-> TRUE, ref |-> iterator.second]]

\* The optional holds a reference to the node's value.
get(c, key) ==
    LET iterator == map_find(c, key)
    IN  IF iterator = map_end
        THEN [c |-> c, ret |-> nullopt]
        ELSE [c |-> _promote(c, iterator.second),
              ret |-> [has_value |-> TRUE, ref |-> iterator.second]]

\* The optional holds a copy of the node's value.
get_copy(c, key) ==
    LET iterator == map_find(c, key)
    IN  IF iterator = map_end
        THEN [c |-> c, ret |-> nullopt]
        ELSE [c |-> _promote(c, iterator.second),
              ret |-> [has_value |-> TRUE,
                       value |-> c.nodes[iterator.second].second]]

\* Mutant: only the Index is cleared.
clear_index_only(c) == [c EXCEPT !._map = {}]

clear(c) == [c EXCEPT !._map = {}, !._list = <<>>, !.nodes = <<>>]

(***************************************************************************)
(* Constructions of Key and Value objects.  insert and insert_or_assign    *)
(* take their arguments by forwarding reference (K&& key, V&& value): an   *)
(* argument is a value together with the value category the caller passed  *)
(* it with.  The containers construct a Key or a Value from an initializer *)
(* with the copy constructor when it is an lvalue and with the move        *)
(* constructor when it is an rvalue, which TestingObject counts.           *)
(***************************************************************************)
Categories == {"lvalue", "rvalue"}
Arg(v, category) == [v |-> v, category |-> category]

\* A parameter used by its name is an lvalue; std::forward<K> gives back the
\* category the caller passed.
by_name(arg) == "lvalue"
forward(arg) == arg.category

\* The counters of TestingObject after one construction from an initializer of
\* this category, and after none.
construct(category) ==
    IF category = "lvalue" THEN [copy |-> 1, move |-> 0] ELSE [copy |-> 0, move |-> 1]
no_construct == [copy |-> 0, move |-> 0]

\* Mutant: the arguments are handed on by name, not forwarded.
_insert_constructs_by_name(key, value) ==
    [key |-> construct(by_name(key)), value |-> construct(by_name(value))]

\* What _insert constructs: emplace builds the members of the pair in the new
\* node from the forwarded arguments; _map[iter->first] wraps a reference to
\* the key of the node and constructs no Key.
_insert_constructs(key, value) ==
    [key |-> construct(forward(key)), value |-> construct(forward(value))]

\* _contains binds key to a const reference.
insert_constructs(c, key, value) ==
    IF _contains(c, key.v)
    THEN [key |-> no_construct, value |-> no_construct]
    ELSE _insert_constructs(key, value)

\* For a present key the forwarded value is assigned, nothing is constructed.
insert_or_assign_constructs(c, key, value) ==
    IF map_find(c, key.v) # map_end
    THEN [key |-> no_construct, value |-> no_construct]
    ELSE _insert_constructs(key, value)

(***************************************************************************)
(* The smaller variant, src/lru.h.  Its members have the names of the      *)
(* members above and are prefixed lru_h_ here.  Where the superset variant *)
(* lets a key convert to reference_wrapper<const Key>, this one calls      *)
(* std::cref; the containers are the same std::list and unordered_map.     *)
(***************************************************************************)
\* std::cref(key): a reference_wrapper, read by the map through get().
cref(key) == [get |-> key]

lru_h_lru(capacity) == [_list |-> <<>>, _map |-> {}, nodes |-> <<>>, _capacity |-> capacity]

lru_h__contains(c, key) == map_find(c, cref(key).get) # map_end

lru_h__promote(c, iter) ==
    IF iter # begin(c)
    THEN [c EXCEPT !._list = splice(c._list, iter)]
    ELSE c

lru_h__evict(c) ==
    pop_back([c EXCEPT !._map = map_erase(c, cref(c.nodes[back(c)].first).get)])

RECURSIVE lru_h__prune(_, _)
lru_h__prune(c, capacity) ==
    IF size(c) > capacity
    THEN lru_h__prune(lru_h__evict(c), capacity)
    ELSE c

lru_h__prune_capacity(c) == lru_h__prune(c, c._capacity)

\* std::cref(iter->first) refers to the key held by the new node.
lru_h__insert(c, key, value) ==
    LET iter == allocate(c, key)
        c1 == emplace_front(c, key, value, iter)
        c2 == [c1 EXCEPT !._map = map_assign(c1, iter, begin(c1))]
    IN  lru_h__prune_capacity(c2)

lru_h_insert(c, key, value) ==
    IF lru_h__contains(c, key)
    THEN [c |-> c, ret |-> FALSE]
    ELSE [c |-> lru_h__insert(c, key, value), ret |-> TRUE]

\* Mutant: the value is assigned without promoting the entry.
lru_h_insert_or_assign_in_place(c, key, value) ==
    LET map_iter == map_find(c, cref(key).get)
    IN  IF map_iter # map_end
        THEN [c |-> [c EXCEPT !.nodes[map_iter.second].second = value],
              ret |-> FALSE]
        ELSE [c |-> lru_h__insert(c, key, value), ret |-> TRUE]

lru_h_insert_or_assign(c, key, value) ==
    LET map_iter == map_find(c, cref(key).get)
    IN  IF map_iter # map_end
        THEN [c |-> lru_h__promote([c EXCEPT !.nodes[map_iter.second].second = value],
                                   map_iter.second),
              ret |-> FALSE]
        ELSE [c |-> lru_h__insert(c, key, value), ret |-> TRUE]

lru_h_find(c, key) ==
    LET iter == map_find(c, cref(key).get)
    IN  IF iter = map_end
        THEN [c |-> c, ret |-> end]
        ELSE [c |-> lru_h__promote(c, iter.second), ret |-> iter.second]

lru_h_contains(c, key) ==
    LET r == lru_h_find(c, key)
    IN  [c |-> r.c, ret |-> r.ret # end]

lru_h_resize(c, capacity) ==
    [lru_h__prune(c, capacity) EXCEPT !._capacity = capacity]

lru_h_for_each(c, func) == std_for_each(c, 1, func, <<>>)

lru_h_try_update(c, key, func) ==
    LET r == lru_h_find(c, key)
    IN  IF r.ret = end
        THEN [c |-> r.c, ret |-> FALSE, calls |-> 0]
        ELSE [c |-> [r.c EXCEPT !.nodes[r.ret].second = func[r.c.nodes[r.ret].second]],
              ret |-> TRUE, calls |-> 1]

lru_h_clear(c) == [c EXCEPT !._map = {}, !._list = <<>>, !.nodes = <<>>]

\* Callables handed to try_update (on mapped values) and to for_each (on pairs).
UpdateFuncs ==
    {[x \in Values |-> 1], [x \in Values |-> (x % NumValues) + 1]}
ForEachFuncs ==
    {[p \in Keys \X Values |-> 1],
     [p \in Keys \X Values |-> IF p[1] = 1 THEN p[2] ELSE (p[2] % NumValues) + 1]}

\* History: the keys of the current entries, most recently touched first.
\* Touch records a touch of key, Retain forgets the keys that c dropped.
Touch(t, key) == <<key>> \o SelectSeq(t, LAMBDA x : x # key)
Retain(t, c) == SelectSeq(t, LAMBDA x : \E h \in DOMAIN c.nodes : c.nodes[h].first = x)

\* The head-to-tail sequence of (key, value) pairs an iteration yields.
Pairs(c) == [i \in 1..Len(c._list) |->
               <<c.nodes[c._list[i]].first, c.nodes[c._list[i]].second>>]
KeySeq(c) == [i \in 1..Len(c._list) |-> c.nodes[c._list[i]].first]
KeySet(c) == {c.nodes[x].first : x \in DOMAIN c.nodes}

\* Where key's entry stands in head-to-tail order (1 = head), 0 when absent.
Position(c, key) ==
    IF \E i \in 1..Len(c._list) : c.nodes[c._list[i]].first = key
    THEN CHOOSE i \in 1..Len(c._list) : c.nodes[c._list[i]].first = key
    ELSE 0
ValueOf(c, key) == c.nodes[c._list[Position(c, key)]].second

Set(c) ==
    /\ _list' = c._list
    /\ _map' = c._map
    /\ nodes' = c.nodes
    /\ _capacity' = c._capacity

Init ==
    /\ _list = <<>>
    /\ _map = {}
    /\ nodes = <<>>
    /\ _capacity \in Capacities
    /\ lastOp = [op |-> "lru", capacity |-> _capacity]
    /\ touched = <<>>

Insert ==
    \E key \in Keys, value \in Values :
        \E r \in {insert(This, key, value)} :
            /\ Set(r.c)
            /\ lastOp' = [op |-> "insert", key |-> key, value |-> value,
                          ret |-> r.ret, pos |-> Position(This, key),
                          evicted |-> Len(_list) + (IF r.ret THEN 1 ELSE 0)
                                      - Len(r.c._list)]
            /\ touched' = Retain(IF r.ret THEN Touch(touched, key) ELSE touched, r.c)

InsertOrAssign ==
    \E key \in Keys, value \in Values :
        \E r \in {insert_or_assign(This, key, value)} :
            /\ Set(r.c)
            /\ lastOp' = [op |-> "insert_or_assign", key |-> key, value |-> value,
                          ret |-> r.ret, pos |-> Position(This, key),
                          evicted |-> Len(_list) + (IF r.ret THEN 1 ELSE 0)
                                      - Len(r.c._list)]
            /\ touched' = Retain(Touch(touched, key), r.c)

Find ==
    \E key \in Keys :
        \E r \in {find(This, key)} :
            /\ Set(r.c)
            /\ lastOp' = [op |-> "find", key |-> key, ret |-> r.ret,
                          pos |-> Position(This, key)]
            /\ touched' = IF r.ret # end THEN Touch(touched, key) ELSE touched

Contains ==
    \E key \in Keys :
        \E r \in {contains(This, key)} :
            /\ Set(r.c)
            /\ lastOp' = [op |-> "contains", key |-> key, ret |-> r.ret,
                          pos |-> Position(This, key)]
            /\ touched' = Retain(IF r.ret THEN Touch(touched, key) ELSE touched, r.c)

Get ==
    \E key \in Keys :
        \E r \in {get(This, key)} :
            /\ Set(r.c)
            /\ lastOp' = [op |-> "get", key |-> key, ret |-> r.ret,
                          pos |-> Position(This, key)]
            /\ touched' = IF r.ret.has_value THEN Touch(touched, key) ELSE touched

GetCopy ==
    \E key \in Keys :
        \E r \in {get_copy(This, key)} :
            /\ Set(r.c)
            /\ lastOp' = [op |-> "get_copy", key |-> key, ret |-> r.ret,
                          pos |-> Position(This, key)]
            /\ touched' = IF r.ret.has_value THEN Touch(touched, key) ELSE touched

TryUpdate ==
    \E key \in Keys, func \in UpdateFuncs :
        \E r \in {try_update(This, key, func)} :
            /\ Set(r.c)
            /\ lastOp' = [op |-> "try_update", key |-> key, func |-> func,
                          ret |-> r.ret, pos |-> Position(This, key),
                          calls |-> r.calls]
            /\ touched' = Retain(IF r.ret THEN Touch(touched, key) ELSE touched, r.c)

ForEach ==
    \E func \in ForEachFuncs :
        \E r \in {for_each(This, func)} :
            /\ Set(r.c)
            /\ lastOp' = [op |-> "for_each", func |-> func, visited |-> r.visited]
            /\ UNCHANGED touched

Resize ==
    \E capacity \in Capacities :
        \E c \in {resize(This, capacity)} :
            /\ Set(c)
            /\ lastOp' = [op |-> "resize", capacity |-> capacity,
                          evicted |-> Len(_list) - Len(c._list)]
            /\ touched' = Retain(touched, c)

Clear ==
    /\ Set(clear(This))
    /\ lastOp' = [op |-> "clear", dropped |-> Len(_list)]
    /\ touched' = <<>>

Next ==
    \/ Insert
    \/ InsertOrAssign
    \/ Find
    \/ Contains
    \/ Get
    \/ GetCopy
    \/ TryUpdate
    \/ ForEach
    \/ Resize
    \/ Clear

Spec == Init /\ [][Next]_vars

(***************************************************************************)
(* The operations the two variants share, with the arguments and the       *)
(* value returned observed.                                                *)
(***************************************************************************)
SharedInsert ==
    \E key \in Keys, value \in Values :
        \E r \in {insert(This, key, value)} :
            /\ Set(r.c)
            /\ lastOp' = [op |-> "insert", key |-> key, value |-> value,
                          ret |-> r.ret]
            /\ UNCHANGED touched

SharedInsertOrAssign ==
    \E key \in Keys, value \in Values :
        \E r \in {insert_or_assign(This, key, value)} :
            /\ Set(r.c)
            /\ lastOp' = [op |-> "insert_or_assign", key |-> key, value |-> value,
                          ret |-> r.ret]
            /\ UNCHANGED touched

SharedFind ==
    \E key \in Keys :
        \E r \in {find(This, key)} :
            /\ Set(r.c)
            /\ lastOp' = [op |-> "find", key |-> key, ret |-> r.ret]
            /\ UNCHANGED touched

SharedContains ==
    \E key \in Keys :
        \E r \in {contains(This, key)} :
            /\ Set(r.c)
            /\ lastOp' = [op |-> "contains", key |-> key, ret |-> r.ret]
            /\ UNCHANGED touched

SharedTryUpdate ==
    \E key \in Keys, func \in UpdateFuncs :
        \E r \in {try_update(This, key, func)} :
            /\ Set(r.c)
            /\ lastOp' = [op |-> "try_update", key |-> key, func |-> func,
                          ret |-> r.ret, calls |-> r.calls]
            /\ UNCHANGED touched

SharedForEach ==
    \E func \in ForEachFuncs :
        \E r \in {for_each(This, func)} :
            /\ Set(r.c)
            /\ lastOp' = [op |-> "for_each", func |-> func, visited |-> r.visited]
            /\ UNCHANGED touched

SharedResize ==
    \E capacity \in Capacities :
        /\ Set(resize(This, capacity))
        /\ lastOp' = [op |-> "resize", capacity |-> capacity]
        /\ UNCHANGED touched

SharedClear ==
    /\ Set(clear(This))
    /\ lastOp' = [op |-> "clear"]
    /\ UNCHANGED touched

NextShared ==
    \/ SharedInsert
    \/ SharedInsertOrAssign
    \/ SharedFind
    \/ SharedContains
    \/ SharedTryUpdate
    \/ SharedForEach
    \/ SharedResize
    \/ SharedClear

SpecShared == Init /\ [][NextShared]_vars

(***************************************************************************)
(* The same object with the value categories of the arguments of insert    *)
(* and insert_or_assign, and the constructions they lead to, observed.     *)
(***************************************************************************)
InsertForward ==
    \E key \in Keys, value \in Values, kc \in Categories, vc \in Categories :
        \E r \in {insert(This, key, value)} :
            /\ Set(r.c)
            /\ lastOp' = [op |-> "insert", ret |-> r.ret, args |-> <<kc, vc>>,
                          constructs |-> insert_constructs(This, Arg(key, kc),
                                                           Arg(value, vc))]
            /\ touched' = Retain(IF r.ret THEN Touch(touched, key) ELSE touched, r.c)

InsertOrAssignForward ==
    \E key \in Keys, value \in Values, kc \in Categories, vc \in Categories :
        \E r \in {insert_or_assign(This, key, value)} :
            /\ Set(r.c)
            /\ lastOp' = [op |-> "insert_or_assign", ret |-> r.ret,
                          args |-> <<kc, vc>>,
                          constructs |-> insert_or_assign_constructs(
                                            This, Arg(key, kc), Arg(value, vc))]
            /\ touched' = Retain(Touch(touched, key), r.c)

NextForward ==
    \/ InsertForward
    \/ InsertOrAssignForward
    \/ Find
    \/ Resize
    \/ Clear

SpecForward == Init /\ [][NextForward]_vars

(***************************************************************************)
(* The operations statement by statement.  lastOp.pc is the position of    *)
(* the running call ("return" when no call is running), and lastOp keeps   *)
(* the locals the rest of the call reads.  The lookups, try_update and     *)
(* for_each change the containers in one statement and are one step.       *)
(***************************************************************************)
\* Mutant: _evict destroys the tail Entry first.
_evict_pops_first(c) == pop_back(c)

Inserts == {"insert", "insert_or_assign"}
Lookups == {"find", "get", "get_copy", "contains"}

\* The two statements of _evict.
_evict_map_erase(c) == [c EXCEPT !._map = map_erase(c, c.nodes[back(c)].first)]
_evict_pop_back(c) == pop_back(c)

\* The two statements of clear.
clear_map(c) == [c EXCEPT !._map = {}]
clear_list(c) == [c EXCEPT !._list = <<>>, !.nodes = <<>>]

Returned(op) == [op |-> op, pc |-> "return"]

InitSteps ==
    /\ _list = <<>>
    /\ _map = {}
    /\ nodes = <<>>
    /\ _capacity \in Capacities
    /\ lastOp = Returned("lru")
    /\ touched = <<>>

\* insert up to its return or its call of _insert.
CallInsert ==
    /\ lastOp.pc = "return"
    /\ \E key \in Keys, value \in Values :
          lastOp' = IF _contains(This, key)
                    THEN Returned("insert")
                    ELSE [op |-> "insert", pc |-> "_insert",
                          key |-> key, value |-> value]
    /\ UNCHANGED <<_list, _map, nodes, _capacity, touched>>

\* insert_or_assign up to the assignment of the value or its call of _insert.
CallInsertOrAssign ==
    /\ lastOp.pc = "return"
    /\ \E key \in Keys, value \in Values :
          LET map_iter == map_find(This, key)
          IN  IF map_iter # map_end
              THEN /\ nodes' = [nodes EXCEPT ![map_iter.second].second = value]
                   /\ lastOp' = [op |-> "insert_or_assign", pc |-> "_promote",
                                  iter |-> map_iter.second]
              ELSE /\ nodes' = nodes
                   /\ lastOp' = [op |-> "insert_or_assign", pc |-> "_insert",
                                  key |-> key, value |-> value]
    /\ UNCHANGED <<_list, _map, _capacity, touched>>

PromoteAssigned ==
    /\ lastOp.pc = "_promote"
    /\ Set(_promote(This, lastOp.iter))
    /\ lastOp' = Returned(lastOp.op)
    /\ UNCHANGED touched

\* _list.emplace(_list.begin(), key, value).
Emplace ==
    /\ lastOp.pc = "_insert"
    /\ \E iter \in {allocate(This, lastOp.key)} :
          /\ Set(emplace_front(This, lastOp.key, lastOp.value, iter))
          /\ lastOp' = [op |-> lastOp.op, pc |-> "emplaced", iter |-> iter]
    /\ UNCHANGED touched

\* _map[iter->first] = _list.begin(), then the call _prune(_capacity).
MapAssign ==
    /\ lastOp.pc = "emplaced"
    /\ Set([This EXCEPT !._map = map_assign(This, lastOp.iter, begin(This))])
    /\ lastOp' = [op |-> lastOp.op, pc |-> "_prune", capacity |-> _capacity]
    /\ UNCHANGED touched

\* resize up to its call _prune(capacity).
CallResize ==
    /\ lastOp.pc = "return"
    /\ \E capacity \in Capacities :
          lastOp' = [op |-> "resize", pc |-> "_prune", capacity |-> capacity]
    /\ UNCHANGED <<_list, _map, nodes, _capacity, touched>>

\* The test of the loop of _prune; when it fails _prune returns, to the
\* assignment of _capacity in resize and to the return of _insert otherwise.
PruneTest ==
    /\ lastOp.pc = "_prune"
    /\ lastOp' = IF size(This) > lastOp.capacity
                  THEN [lastOp EXCEPT !.pc = "_evict"]
                  ELSE IF lastOp.op = "resize"
                       THEN [lastOp EXCEPT !.pc = "_capacity"]
                       ELSE Returned(lastOp.op)
    /\ UNCHANGED <<_list, _map, nodes, _capacity, touched>>

EvictMapErase ==
    /\ lastOp.pc = "_evict"
    /\ Set(_evict_map_erase(This))
    /\ lastOp' = [lastOp EXCEPT !.pc = "erased"]
    /\ UNCHANGED touched

EvictPopBack ==
    /\ lastOp.pc = "erased"
    /\ Set(_evict_pop_back(This))
    /\ lastOp' = [lastOp EXCEPT !.pc = "_prune"]
    /\ UNCHANGED touched

\* _capacity = capacity in resize.
AssignCapacity ==
    /\ lastOp.pc = "_capacity"
    /\ _capacity' = lastOp.capacity
    /\ lastOp' = Returned("resize")
    /\ UNCHANGED <<_list, _map, nodes, touched>>

ClearMap ==
    /\ lastOp.pc = "return"
    /\ Set(clear_map(This))
    /\ lastOp' = [op |-> "clear", pc |-> "map_cleared"]
    /\ UNCHANGED touched

ClearList ==
    /\ lastOp.pc = "map_cleared"
    /\ Set(clear_list(This))
    /\ lastOp' = Returned("clear")
    /\ UNCHANGED touched

\* find, contains, get and get_copy: _map.find and, on a hit, _promote.
CallLookup ==
    /\ lastOp.pc = "return"
    /\ \E key \in Keys, op \in Lookups :
          /\ Set(find(This, key).c)
          /\ lastOp' = Returned(op)
    /\ UNCHANGED touched

CallTryUpdate ==
    /\ lastOp.pc = "return"
    /\ \E key \in Keys, func \in UpdateFuncs :
          Set(try_update(This, key, func).c)
    /\ lastOp' = Returned("try_update")
    /\ UNCHANGED touched

CallForEach ==
    /\ lastOp.pc = "return"
    /\ \E func \in ForEachFuncs : Set(for_each(This, func).c)
    /\ lastOp' = Returned("for_each")
    /\ UNCHANGED touched

NextSteps ==
    \/ CallInsert
    \/ CallInsertOrAssign
    \/ PromoteAssigned
    \/ Emplace
    \/ MapAssign
    \/ CallResize
    \/ PruneTest
    \/ EvictMapErase
    \/ EvictPopBack
    \/ AssignCapacity
    \/ ClearMap
    \/ ClearList
    \/ CallLookup
    \/ CallTryUpdate
    \/ CallForEach

SpecSteps == InitSteps /\ [][NextSteps]_vars

(***************************************************************************)
(* Allocation failure.  _insert allocates twice: _list.emplace allocates   *)
(* the node of the Entry, and _map[iter->first] allocates the element of   *)
(* the Index (and, when it rehashes, the buckets).  Either allocation can  *)
(* throw std::bad_alloc; neither container call has an effect when it      *)
(* throws, and no function of lru catches, so the exception leaves _insert *)
(* and insert / insert_or_assign at that statement.  The exception is      *)
(* fatal to the caller: no further call is made on the object.             *)
(***************************************************************************)
AllocationPoints == {"emplace", "map"}

\* _insert up to the statement whose allocation throws.
_insert_throws(c, key, value, at) ==
    IF at = "emplace"
    THEN c
    ELSE emplace_front(c, key, value, allocate(c, key))

Thrown == "threw" \in DOMAIN lastOp

\* insert or insert_or_assign of an absent key, left by std::bad_alloc.
InsertThrows ==
    /\ ~Thrown
    /\ \E op \in Inserts, key \in Keys, value \in Values, at \in AllocationPoints :
          /\ ~_contains(This, key)
          /\ Set(_insert_throws(This, key, value, at))
          /\ lastOp' = [op |-> op, key |-> key, value |-> value,
                        threw |-> "bad_alloc", at |-> at]
    /\ UNCHANGED touched

InsertReturns == ~Thrown /\ Insert
InsertOrAssignReturns == ~Thrown /\ InsertOrAssign
FindReturns == ~Thrown /\ Find
ResizeReturns == ~Thrown /\ Resize
ClearReturns == ~Thrown /\ Clear

NextAlloc ==
    \/ InsertThrows
    \/ InsertReturns
    \/ InsertOrAssignReturns
    \/ FindReturns
    \/ ResizeReturns
    \/ ClearReturns

SpecAlloc == Init /\ [][NextAlloc]_vars

(***************************************************************************)
(* A cache whose capacity stays as constructed: resize and clear are not   *)
(* called.  Here touched is the whole history, kept beside the object and  *)
(* computed without reading it: the pairs <<key, value>> of all keys ever  *)
(* touched, most recently touched first, where value is the value last     *)
(* written for the key since it was last inserted, and 0 once the key has  *)
(* fallen behind the capacity most recently touched keys.                  *)
(***************************************************************************)
Min(a, b) == IF a <= b THEN a ELSE b

\* The most recently touched keys that a cache of this capacity holds.
Recent(t, capacity) == SubSeq(t, 1, Min(capacity, Len(t)))
Listed(t, capacity, key) == \E i \in 1..Len(Recent(t, capacity)) : t[i][1] = key
Stored(t, key) == (CHOOSE i \in 1..Len(t) : t[i][1] = key)

\* A touch of key that leaves value stored for it, in a cache of this capacity.
Touched(t, capacity, key, value) ==
    LET u == <<<<key, value>>>> \o SelectSeq(t, LAMBDA p : p[1] # key)
    IN  [i \in 1..Len(u) |-> IF i <= capacity THEN u[i] ELSE <<u[i][1], 0>>]

FixedInsert ==
    \E key \in Keys, value \in Values :
        \E r \in {insert(This, key, value)} :
            /\ Set(r.c)
            /\ lastOp' = [op |-> "insert", key |-> key, ret |-> r.ret]
            /\ touched' = IF Listed(touched, _capacity, key)
                           THEN touched
                           ELSE Touched(touched, _capacity, key, value)

FixedInsertOrAssign ==
    \E key \in Keys, value \in Values :
        \E r \in {insert_or_assign(This, key, value)} :
            /\ Set(r.c)
            /\ lastOp' = [op |-> "insert_or_assign", key |-> key, ret |-> r.ret]
            /\ touched' = Touched(touched, _capacity, key, value)

\* find, contains, get and get_copy.
FixedLookup ==
    \E key \in Keys, op \in Lookups :
        \E r \in {CASE op = "find" -> find(This, key)
                     [] op = "contains" -> contains(This, key)
                     [] op = "get" -> get(This, key)
                     [] op = "get_copy" -> get_copy(This, key)} :
            /\ Set(r.c)
            /\ lastOp' = [op |-> op, key |-> key, ret |-> r.ret]
            /\ touched' = IF Listed(touched, _capacity, key)
                           THEN Touched(touched, _capacity, key,
                                        touched[Stored(touched, key)][2])
                           ELSE touched

FixedTryUpdate ==
    \E key \in Keys, func \in UpdateFuncs :
        \E r \in {try_update(This, key, func)} :
            /\ Set(r.c)
            /\ lastOp' = [op |-> "try_update", key |-> key, ret |-> r.ret]
            /\ touched' = IF Listed(touched, _capacity, key)
                           THEN Touched(touched, _capacity, key,
                                        func[touched[Stored(touched, key)][2]])
                           ELSE touched

FixedForEach ==
    \E func \in ForEachFuncs :
        \E r \in {for_each(This, func)} :
            /\ Set(r.c)
            /\ lastOp' = [op |-> "for_each"]
            /\ touched' = [i \in 1..Len(touched) |->
                             IF i <= _capacity
                             THEN <<touched[i][1], func[touched[i]]>>
                             ELSE touched[i]]

NextFixed ==
    \/ FixedInsert
    \/ FixedInsertOrAssign
    \/ FixedLookup
    \/ FixedTryUpdate
    \/ FixedForEach

SpecFixed == Init /\ [][NextFixed]_vars

(***************************************************************************)
(* Properties.                                                             *)
(***************************************************************************)
Range(f) == {f[x] : x \in DOMAIN f}
\* The object as the step leaves it.
After == [_list |-> _list', _map |-> _map', nodes |-> nodes', _capacity |-> _capacity']

\* C1: each time a public operation returns, size() <= max_size().
C1_CapacityBound == size(This) <= max_size(This)

\* An insert into a full cache of capacity 1 has just evicted an entry.
C1_Witness ==
    /\ lastOp.op = "insert"
    /\ lastOp.evicted = 1
    /\ size(This) = 1
    /\ max_size(This) = 1

\* C2: after every operation the Index and the Recency Sequence are in
\* bijection: each Index element refers to a live Entry, maps to the position
\* of that same Entry, which is in the sequence once and holds the key; no two
\* Entries hold the same key; every Entry of the sequence has an Index element.
C2_Bijection ==
    /\ \A e \in _map :
          /\ e.first \in DOMAIN nodes
          /\ e.second \in DOMAIN nodes
          /\ nodes[e.second].first = nodes[e.first].first
          /\ Cardinality({i \in 1..Len(_list) : _list[i] = e.second}) = 1
    /\ \A e1, e2 \in _map : e1.second = e2.second => e1 = e2
    /\ \A i, j \in 1..Len(_list) :
          nodes[_list[i]].first = nodes[_list[j]].first => i = j
    /\ \A i \in 1..Len(_list) : \E e \in _map : e.second = _list[i]
    /\ DOMAIN nodes = Range(_list)

\* Two entries are indexed after an insert_or_assign created an Entry and
\* evicted another.
C2_Witness ==
    /\ lastOp.op = "insert_or_assign"
    /\ lastOp.evicted = 1
    /\ Len(_list) = 2
    /\ Cardinality(_map) = 2

\* C3: when insert or insert_or_assign of an absent key pushes size above
\* capacity, exactly the tail of the sequence (as it stands after the new
\* Entry was put at the head) is removed: every other entry stays, in order,
\* in its node, and the removed key is the least recently touched of them.
\* After every operation the sequence lists the entries most recently touched
\* first, so an entry touched after another was touched outlives that other.
C3_EvictsTail ==
    [][/\ touched' = KeySeq(After)
       /\ (lastOp'.op \in Inserts /\ lastOp'.ret = TRUE
           /\ Len(_list) + 1 > _capacity)
          => LET full == <<<<lastOp'.key, lastOp'.value>>>> \o Pairs(This)
                 order == Touch(touched, lastOp'.key)
                 gone == full[Len(full)][1]
             IN  /\ Pairs(After) = SubSeq(full, 1, Len(full) - 1)
                 /\ _list # <<>> =>
                       /\ _list' # <<>>
                       /\ _list' = <<_list'[1]>> \o SubSeq(_list, 1, Len(_list) - 1)
                       /\ _list'[1] \notin DOMAIN nodes
                 /\ gone \notin KeySet(After)
                 /\ \A e \in _map' : nodes'[e.first].first # gone
                 /\ gone = order[Len(order)]
                 /\ lastOp'.evicted = 1]_vars

\* Capacity 2: insert of key 3 evicted key 2 and kept key 1, which was
\* touched after key 2.
C3_Witness ==
    /\ lastOp.op = "insert"
    /\ lastOp.key = 3
    /\ lastOp.evicted = 1
    /\ _capacity = 2
    /\ KeySeq(This) = <<3, 1>>
    /\ touched = <<3, 1>>

\* What a lookup of a present key does to the cache: key's node goes to the
\* head, the other nodes keep their relative order, nothing else changes.
Promoted(key) ==
    LET h == _list[Position(This, key)]
    IN  /\ _list' # <<>>
        /\ _list'[1] = h
        /\ SelectSeq(_list', LAMBDA x : x # h) = SelectSeq(_list, LAMBDA x : x # h)
        /\ Len(_list') = Len(_list)

\* C4: find, get, get_copy or contains of a present key k leaves k's Entry
\* first in iteration order, the other entries in their previous relative
\* order, and values, size, key set, Index and capacity unchanged;
\* contains(k) returns true exactly when k is present.
C4_LookupPromotes ==
    [][/\ (lastOp'.op \in Lookups /\ lastOp'.key \in KeySet(This))
          => /\ Promoted(lastOp'.key)
             /\ nodes'[_list'[1]].first = lastOp'.key
             /\ nodes' = nodes
             /\ _map' = _map
             /\ _capacity' = _capacity
             /\ KeySet(After) = KeySet(This)
       /\ lastOp'.op = "contains"
          => lastOp'.ret = (lastOp'.key \in KeySet(This))]_vars

\* contains found its key at the tail of three entries and moved it up.
C4_Witness ==
    /\ lastOp.op = "contains"
    /\ lastOp.ret = TRUE
    /\ lastOp.pos = 3
    /\ Len(_list) = 3
    /\ nodes[_list[1]].first = lastOp.key

\* C5: insert(k, v) of a present key k returns false and changes nothing:
\* values, size, capacity, Index and the order of all entries stay.
C5_DoubleInsertNoOp ==
    [][(lastOp'.op = "insert" /\ lastOp'.key \in KeySet(This))
       => /\ lastOp'.ret = FALSE
          /\ UNCHANGED <<_list, _map, nodes, _capacity>>]_vars

\* insert was refused for a key that is not at the head and holds another
\* value than the one offered.
C5_Witness ==
    /\ lastOp.op = "insert"
    /\ lastOp.ret = FALSE
    /\ lastOp.pos = 2
    /\ Position(This, lastOp.key) = 2
    /\ ValueOf(This, lastOp.key) # lastOp.value

TouchOps == Inserts \cup Lookups \cup {"try_update"}

\* Whether the last call found or created the entry of its key.
Hit ==
    CASE lastOp.op = "insert" -> lastOp.ret = TRUE
      [] lastOp.op = "insert_or_assign" -> TRUE
      [] lastOp.op = "find" -> lastOp.ret # end
      [] lastOp.op \in {"get", "get_copy"} -> lastOp.ret.has_value
      [] lastOp.op \in {"contains", "try_update"} -> lastOp.ret = TRUE
      [] OTHER -> FALSE

\* C6 as stated: every touch operation on a key k (insert, a lookup,
\* insert_or_assign, try_update) leaves k's Entry at the head when it returns.
C6_Original ==
    (lastOp.op \in TouchOps /\ lastOp.key \in KeySet(This))
    => nodes[_list[1]].first = lastOp.key

\* C6 amended: a touch operation that found or created k's Entry (insert
\* returning true, insert_or_assign, a hit of find / get / get_copy /
\* contains / try_update) leaves that Entry at the head when it returns,
\* whenever the capacity is at least 1; insert of a present key returns false
\* and leaves k's Entry where it was.
C6_TouchAtHead ==
    /\ (lastOp.op \in TouchOps /\ Hit /\ _capacity >= 1)
       => /\ _list # <<>>
          /\ nodes[_list[1]].first = lastOp.key
    /\ (lastOp.op = "insert" /\ ~Hit)
       => Position(This, lastOp.key) = lastOp.pos

\* try_update found its key at the tail of three entries.
C6_Witness ==
    /\ lastOp.op = "try_update"
    /\ lastOp.ret = TRUE
    /\ lastOp.pos = 3
    /\ nodes[_list[1]].first = lastOp.key

\* C7: resize(n) with n < size() leaves size() = max_size() = n and exactly
\* the first n nodes of the previous order, in that order, with their pairs;
\* the other nodes are gone from the sequence and from the Index.
C7_ResizeDown ==
    [][(lastOp'.op = "resize" /\ lastOp'.capacity < Len(_list))
       => LET n == lastOp'.capacity
          IN  /\ Len(_list') = n
              /\ _capacity' = n
              /\ _list' = SubSeq(_list, 1, n)
              /\ nodes' = [h \in Range(SubSeq(_list, 1, n)) |-> nodes[h]]
              /\ _map' = {e \in _map : e.second \in Range(SubSeq(_list, 1, n))}
              /\ lastOp'.evicted = Len(_list) - n]_vars

\* resize(1) evicted two of three entries and kept the one touched last.
C7_Witness ==
    /\ lastOp.op = "resize"
    /\ lastOp.capacity = 1
    /\ lastOp.evicted = 2
    /\ _capacity = 1
    /\ Len(_list) = 1

\* Operations that may write the value stored for key.
Writes(op, key) ==
    \/ op.op = "for_each"
    \/ op.op \in {"insert_or_assign", "try_update"} /\ op.key = key

\* C8: insert_or_assign(k, v) of a present key k returns false, keeps the
\* size, stores v for k, moves k's Entry to the head and leaves the other
\* entries, their values and order alone; the value stored for a key stays
\* what it is through every operation that is not a write to it, and a
\* lookup returns the value stored.
C8_Assign ==
    [][/\ (lastOp'.op = "insert_or_assign" /\ lastOp'.key \in KeySet(This))
          => LET h == _list[Position(This, lastOp'.key)]
             IN  /\ lastOp'.ret = FALSE
                 /\ Promoted(lastOp'.key)
                 /\ nodes' = [nodes EXCEPT ![h].second = lastOp'.value]
                 /\ _map' = _map
                 /\ _capacity' = _capacity
       /\ \A g \in DOMAIN nodes, h \in DOMAIN nodes' :
            (nodes[g].first = nodes'[h].first /\ ~Writes(lastOp', nodes[g].first))
            => nodes'[h].second = nodes[g].second
       /\ (lastOp'.op = "get_copy" /\ lastOp'.ret.has_value)
          => lastOp'.ret.value = ValueOf(After, lastOp'.key)
       /\ (lastOp'.op = "get" /\ lastOp'.ret.has_value)
          => nodes'[lastOp'.ret.ref] =
               [first |-> lastOp'.key, second |-> ValueOf(After, lastOp'.key)]
       /\ (lastOp'.op = "find" /\ lastOp'.ret # end)
          => nodes'[lastOp'.ret] =
               [first |-> lastOp'.key, second |-> ValueOf(After, lastOp'.key)]]_vars

\* insert_or_assign overwrote the value of the entry it found in second place.
C8_Witness ==
    /\ lastOp.op = "insert_or_assign"
    /\ lastOp.ret = FALSE
    /\ lastOp.pos = 2
    /\ Len(_list) = 3
    /\ Pairs(This)[1] = <<lastOp.key, lastOp.value>>

\* C9: find, get, get_copy, contains and try_update of an absent key report
\* absence and leave sequence, Index, values and capacity as they were.
C9_MissNoOp ==
    [][(lastOp'.op \in Lookups \cup {"try_update"}
        /\ lastOp'.key \notin KeySet(This))
       => /\ UNCHANGED <<_list, _map, nodes, _capacity>>
          /\ lastOp'.op = "find" => lastOp'.ret = end
          /\ lastOp'.op \in {"get", "get_copy"} => lastOp'.ret = nullopt
          /\ lastOp'.op \in {"contains", "try_update"} => lastOp'.ret = FALSE]_vars

\* try_update missed its key in a cache holding two other entries.
C9_Witness ==
    /\ lastOp.op = "try_update"
    /\ lastOp.ret = FALSE
    /\ lastOp.pos = 0
    /\ Len(_list) = 2

\* C10: while the capacity is 0 the cache is empty after every operation,
\* every insert and insert_or_assign returns true (its Entry is evicted at
\* once) and every lookup reports absence.
C10_CapacityZero ==
    _capacity = 0
    => /\ _list = <<>>
       /\ _map = {}
       /\ DOMAIN nodes = {}
       /\ lastOp.op \in Inserts => lastOp.ret = TRUE /\ lastOp.evicted = 1
       /\ lastOp.op \in TouchOps \ Inserts => ~Hit

\* insert_or_assign into a cache of capacity 0 returned true and left it
\* empty.
C10_Witness ==
    /\ _capacity = 0
    /\ lastOp.op = "insert_or_assign"
    /\ lastOp.ret = TRUE
    /\ lastOp.evicted = 1
    /\ _list = <<>>

\* C11: try_update(k, fn) returns true exactly when k is present; then fn was
\* applied once, the value stored for k afterwards is fn of the value stored
\* before, a lookup and an iteration observe that value, the key set stays and
\* no other entry's value changes; when k is absent it returns false, fn was
\* not applied and no value changed.
C11_TryUpdate ==
    [][lastOp'.op = "try_update"
       => \A key \in {lastOp'.key}, func \in {lastOp'.func}, after \in {After} :
            /\ lastOp'.ret = (key \in KeySet(This))
            /\ key \in KeySet(This)
               => \A new \in {func[ValueOf(This, key)]} :
                    /\ lastOp'.calls = 1
                    /\ ValueOf(after, key) = new
                    /\ get_copy(after, key).ret = [has_value |-> TRUE, value |-> new]
                    /\ find(after, key).ret # end
                    /\ <<key, new>> \in Range(Pairs(after))
                    /\ KeySet(after) = KeySet(This)
                    /\ \A k \in KeySet(This) \ {key} :
                          ValueOf(after, k) = ValueOf(This, k)
            /\ key \notin KeySet(This)
               => /\ lastOp'.ret = FALSE
                  /\ lastOp'.calls = 0
                  /\ nodes' = nodes]_vars

\* try_update turned the value 1 of its key into 2 while another entry kept
\* the value 1.
C11_Witness ==
    /\ lastOp.op = "try_update"
    /\ lastOp.ret = TRUE
    /\ lastOp.func[1] = 2
    /\ ValueOf(This, lastOp.key) = 2
    /\ Len(_list) = 2
    /\ Pairs(This)[2][2] = 1

\* C12: for_each(fn) invokes fn on every entry exactly once, in head-to-tail
\* order, which is the order an iteration lists them in; it leaves the key
\* set, size, capacity, Index and recency order unchanged, and the value of
\* each entry afterwards is what fn wrote for that entry's (key, value).
C12_ForEach ==
    [][lastOp'.op = "for_each"
       => /\ lastOp'.visited = _list
          /\ \A i, j \in 1..Len(lastOp'.visited) :
                lastOp'.visited[i] = lastOp'.visited[j] => i = j
          /\ _list' = _list
          /\ _map' = _map
          /\ _capacity' = _capacity
          /\ KeySeq(After) = KeySeq(This)
          /\ size(After) = size(This)
          /\ Pairs(After) = [i \in 1..Len(_list) |->
                               <<Pairs(This)[i][1], lastOp'.func[Pairs(This)[i]]>>]]_vars

\* for_each visited three entries with the callable that keeps the value of
\* key 1 and changes the others: key 1 holds 2, and so does another key.
C12_Witness ==
    /\ lastOp.op = "for_each"
    /\ Len(lastOp.visited) = 3
    /\ lastOp.func[<<2, 1>>] = 2
    /\ ValueOf(This, 1) = 2
    /\ ValueOf(This, 2) = 2
    /\ KeySeq(This)[1] = 2

\* C13: max_size() is the capacity given to the constructor when the cache is
\* constructed, resize(n) leaves max_size() = n, and every other operation
\* leaves max_size() as it was, also when it evicts.
C13_CapacityFrame ==
    /\ (lastOp.op = "lru" => max_size(This) = lastOp.capacity)
    /\ [][/\ lastOp'.op = "resize" => max_size(After) = lastOp'.capacity
          /\ lastOp'.op # "resize" => max_size(After) = max_size(This)]_vars

\* An insert into a full cache of capacity 2 evicted an entry and left
\* max_size() = 2.
C13_Witness ==
    /\ lastOp.op = "insert"
    /\ lastOp.evicted = 1
    /\ size(This) = 2
    /\ max_size(This) = 2

\* C14: clear() leaves the object equal to a newly constructed cache of the
\* same capacity: size() = 0, Index and Recency Sequence empty, every key
\* that was present reported absent by the lookups, capacity unchanged.
C14_Clear ==
    [][lastOp'.op = "clear"
       => /\ After = lru(_capacity)
          /\ size(After) = 0
          /\ empty(After)
          /\ _map' = {}
          /\ _list' = <<>>
          /\ max_size(After) = max_size(This)
          /\ \A k \in KeySet(This) :
                /\ ~_contains(After, k)
                /\ find(After, k).ret = end
                /\ contains(After, k).ret = FALSE
                /\ get(After, k).ret = nullopt]_vars

\* clear() destroyed the three entries of a cache of capacity 3.
C14_Witness ==
    /\ lastOp.op = "clear"
    /\ lastOp.dropped = 3
    /\ _capacity = 3
    /\ _list = <<>>

\* What a caller observes of an object besides the value an operation returns.
Observed(c) == [size |-> size(c), max_size |-> max_size(c), pairs |-> Pairs(c)]

\* C15: the two variants start as equal objects, and each shared operation
\* (insert, insert_or_assign, find, contains, try_update, for_each, resize,
\* clear) of src/lru.h, applied to the object the operation of
\* src/include/lru.h was applied to, returns the same value and leaves the
\* same object, hence the same size(), max_size() and head-to-tail sequence of
\* pairs.  By induction the two agree after each operation of every sequence.
C15_VariantsAgree ==
    /\ (lastOp.op = "lru" => lru_h_lru(lastOp.capacity) = This)
    /\ [][\A op \in {lastOp'}, after \in {After} :
            LET same(r) == /\ r.c = after
                           /\ Observed(r.c) = Observed(after)
            IN  CASE op.op = "insert" ->
                       \A r \in {lru_h_insert(This, op.key, op.value)} :
                           same(r) /\ r.ret = op.ret
                  [] op.op = "insert_or_assign" ->
                       \A r \in {lru_h_insert_or_assign(This, op.key, op.value)} :
                           same(r) /\ r.ret = op.ret
                  [] op.op = "find" ->
                       \A r \in {lru_h_find(This, op.key)} :
                           same(r) /\ r.ret = op.ret
                  [] op.op = "contains" ->
                       \A r \in {lru_h_contains(This, op.key)} :
                           same(r) /\ r.ret = op.ret
                  [] op.op = "try_update" ->
                       \A r \in {lru_h_try_update(This, op.key, op.func)} :
                           same(r) /\ r.ret = op.ret /\ r.calls = op.calls
                  [] op.op = "for_each" ->
                       \A r \in {lru_h_for_each(This, op.func)} :
                           same(r) /\ r.visited = op.visited
                  [] op.op = "resize" ->
                       \A c \in {lru_h_resize(This, op.capacity)} :
                           same([c |-> c])
                  [] op.op = "clear" ->
                       \A c \in {lru_h_clear(This)} : same([c |-> c])
                  [] OTHER -> TRUE]_vars

\* resize(2) left two entries in a cache of capacity 2, and a further
\* resize(1) of either variant leaves the same single pair.
C15_Witness ==
    /\ lastOp.op = "resize"
    /\ lastOp.capacity = 2
    /\ Len(_list) = 2
    /\ Observed(lru_h_resize(This, 1)).size = 1
    /\ Observed(lru_h_resize(This, 1)) = Observed(resize(This, 1))

\* The number of live nodes that hold a copy of key.
KeyCopies(c, key) == Cardinality({h \in DOMAIN c.nodes : c.nodes[h].first = key})

C17_EvictsAtMostOne ==
    [][/\ lastOp'.op \in Inserts
          => /\ lastOp'.evicted \in {0, 1}
             /\ Len(_list') >= Len(_list)
             /\ Cardinality(KeySet(This) \ KeySet(After)) <= 1
       /\ lastOp'.op \in (Lookups \cup {"try_update", "for_each"})
          => KeySet(After) = KeySet(This)
       /\ Cardinality(KeySet(This) \ KeySet(After)) > 1
          => lastOp'.op \in {"resize", "clear"}]_vars

\* insert_or_assign of key 2 into a full cache of capacity 1 evicted the one
\* entry there was.
C17_Witness ==
    /\ lastOp.op = "insert_or_assign"
    /\ lastOp.key = 2
    /\ lastOp.evicted = 1
    /\ _capacity = 1
    /\ KeySeq(This) = <<2>>

\* Each Index element of c refers to a live Entry that is in the sequence
\* and holds the key the element is filed under.
IndexRefersToEntries(c) ==
    \A e \in c._map :
        /\ e.first \in DOMAIN c.nodes
        /\ e.second \in DOMAIN c.nodes
        /\ e.second \in Range(c._list)
        /\ c.nodes[e.second].first = c.nodes[e.first].first

\* C18: at every statement boundary of every operation each Index element
\* refers to an Entry that is in the Recency Sequence.  _evict is entered only
\* with a non-empty sequence whose tail key is in the Index; between its two
\* statements the tail Entry is still there and the Index element of its key
\* is gone; between the two statements of clear the Index is empty and the
\* sequence is as it was.
C18_IndexValidAtEachStep ==
    /\ IndexRefersToEntries(This)
    /\ [][/\ IndexRefersToEntries(After)
          /\ lastOp'.pc = "_evict"
             => /\ _list' # <<>>
                /\ _contains(After, nodes'[back(After)].first)
                /\ map_find(After, nodes'[back(After)].first).second = back(After)
          /\ lastOp'.pc = "erased"
             => /\ _list' = _list
                /\ nodes' = nodes
                /\ _map' = {e \in _map : e.second # back(This)}
                /\ Cardinality(_map') = Cardinality(_map) - 1
                /\ ~_contains(After, nodes'[back(After)].first)
          /\ lastOp.pc = "erased"
             => /\ _list' = SubSeq(_list, 1, Len(_list) - 1)
                /\ _map' = _map
          /\ lastOp'.pc = "map_cleared"
             => /\ _map' = {}
                /\ _list' = _list
                /\ nodes' = nodes
          /\ lastOp.pc = "map_cleared"
             => _list' = <<>> /\ _map' = {}]_vars

\* resize is between the two statements of _evict: three entries are in the
\* sequence and the Index holds the two that stay.
C18_Witness ==
    /\ lastOp.op = "resize"
    /\ lastOp.pc = "erased"
    /\ Len(_list) = 3
    /\ Cardinality(_map) = 2

\* C19: when an allocation fails during insert or insert_or_assign of an
\* absent key, the object the caller is left with satisfies the bijection of
\* Index and Recency Sequence and the capacity bound.
C19_NoPartialInsert ==
    Thrown => C2_Bijection /\ C1_CapacityBound

\* C20: while the capacity stays the constructed C and clear is not called,
\* after every operation the entries are exactly the min(C, d) most recently
\* touched of the d distinct keys ever touched (a touch being an insert of an
\* absent key, an insert_or_assign, or a hit of find / get / get_copy /
\* contains / try_update), and iteration lists them most recently touched
\* first, each with the value last written for it since it was last inserted.
C20_MostRecentlyTouched ==
    /\ Pairs(This) = Recent(touched, _capacity)
    /\ size(This) = Min(_capacity, Len(touched))
    /\ KeySet(This) = {touched[i][1] : i \in 1..Min(_capacity, Len(touched))}
    /\ Cardinality(KeySet(This)) = Min(_capacity, Len(touched))
    /\ \A i, j \in 1..Len(touched) : touched[i][1] = touched[j][1] => i = j

\* Capacity 2, three keys touched: get_copy hit key 1, which is listed before
\* key 3 and holds the value 2; key 2 has fallen out.
C20_Witness ==
    /\ _capacity = 2
    /\ lastOp.op = "get_copy"
    /\ lastOp.key = 1
    /\ lastOp.ret.has_value
    /\ Len(touched) = 3
    /\ Pairs(This) = <<<<1, 2>>, <<3, 1>>>>
    /\ touched[3][1] = 2
====
